---- MODULE Spec2Model ----
(***************************************************************************)
(* State machine of the marker store kept by App (src/src/App.tsx), of the *)
(* UI events that drive it (FileUpload, MapControls, IconEditor, Map) and  *)
(* of the nearest-neighbour route optimizer calculateOptimizedRoute.       *)
(*                                                                         *)
(* Encodings.                                                              *)
(*  - A marker is a record [id, latitude, longitude, name, icon, ref].     *)
(*    ref is the identity of the JavaScript object: Array.includes and     *)
(*    Array.indexOf compare objects by identity, and every object spread   *)
(*    {...marker, k: v} makes a new object.  After every handler the refs  *)
(*    of the live objects are renumbered by first appearance (Renumber),   *)
(*    which keeps identity relations and nothing else.                     *)
(*  - Ids are strings; name holds n for the default name `Location n`.     *)
(*  - Coordinates are whole degrees; getDistance is the haversine formula  *)
(*    in fixed point (see getDistance).                                    *)
(*  - null is Null for the start id, and the empty option <<>> for the     *)
(*    route (a present route r is <<r>>).                                  *)
(***************************************************************************)
\* Array.prototype.filter is SelectSeq of Sequences.
EXTENDS Integers, Sequences, FiniteSets, TLC

VARIABLES
    markers,          \* App: useState<MapMarker[]>([])
    selectedMarkers,  \* App: useState<MapMarker[]>([])
    isDrawing,        \* App: useState(false)
    optimizedRoute,   \* App: useState<MapMarker[] | null>(null)
    startMarkerId,    \* App: useState<string | null>(null)
    selectingStart,   \* MapControls: useState(false)
    lastOp,           \* the UI event handled last, with its arguments
    events,           \* number of UI events handled so far
    rInput,           \* calculateOptimizedRoute: parameter markers
    rStartId,         \* calculateOptimizedRoute: parameter startId
    rRoute,           \* calculateOptimizedRoute: local route
    rRemaining,       \* calculateOptimizedRoute: local remainingMarkers
    rResult,          \* calculateOptimizedRoute: returned value (an option)
    rpc,              \* calculateOptimizedRoute: position in the function
    iFormat,          \* handleFileUpload: the branch taken for the file's extension
    iRows,            \* handleFileUpload: results.data or geojson.features
    iMarkers,         \* handleFileUpload: the markers handed to onDataLoaded
    ipc,              \* handleFileUpload: position in the function
    listeners,        \* Map: the CREATED listeners on the map, each the markers it closes over
    firing,           \* Map: index of the listener CREATED calls next, 0 when not firing
    drawn,            \* Map: the shape of the CREATED event being fired
    queued            \* App: the setSelectedMarkers value queued in the batch (an option)

appVars == <<markers, selectedMarkers, isDrawing, optimizedRoute, startMarkerId,
             selectingStart, lastOp, events>>
routeVars == <<rInput, rStartId, rRoute, rRemaining, rResult, rpc>>
importVars == <<iFormat, iRows, iMarkers, ipc>>
drawVars == <<listeners, firing, drawn, queued>>
vars == <<markers, selectedMarkers, isDrawing, optimizedRoute, startMarkerId,
          selectingStart, lastOp, events, rInput, rStartId, rRoute, rRemaining, rResult, rpc,
          iFormat, iRows, iMarkers, ipc, listeners, firing, drawn, queued>>

-----------------------------------------------------------------------------
(* Bounds *)

\* rows or features in one imported file
MaxRows == 2
\* UI events in one session
MaxEvents == 5
\* markers handed to the optimizer when it is checked on its own
MaxLen == 3
\* CREATED listeners on the map when the last draw begins; the collection
\* changes while there are fewer
MaxListeners == 4

-----------------------------------------------------------------------------
(* Values *)

Null == "null"
Undefined == "undefined"
\* `marker-${index}` for index 0, 1, ...
IdTable == <<"marker-0", "marker-1", "marker-2", "marker-3", "marker-4">>
\* values an `id` column or an `id` property can carry; "" is falsy
IdValues == {"x"}
IconUrls == {"u1"}
Lats == {0}
Lons == {0, 1}

\* !value for the values an id can take
Falsy(v) == v = Null \/ v = Undefined \/ v = ""

Ids(s) == {s[i].id : i \in DOMAIN s}
Refs(s) == {s[i].ref : i \in DOMAIN s}
Range(s) == {s[i] : i \in DOMAIN s}

\* array.includes(obj) on objects: identity
Includes(s, m) == m.ref \in Refs(s)

\* array.indexOf(obj) on objects: first index holding that object, 0 if none
IndexOf(s, m) ==
    IF Includes(s, m)
      THEN CHOOSE i \in DOMAIN s : s[i].ref = m.ref /\ \A j \in 1..(i-1) : s[j].ref # m.ref
      ELSE 0

\* array.splice(i, 1) for an index i of the array (1-based here)
Splice(s, i) == [j \in 1..(Len(s)-1) |-> IF j < i THEN s[j] ELSE s[j+1]]

-----------------------------------------------------------------------------
(* getDistance: haversine, Earth radius 6371 km *)

R == 6371

Abs(x) == IF x < 0 THEN 0 - x ELSE x

\* sin(toRad(d)/2)^2 * 10^8 for d = 0..3 degrees
SinSqHalf == <<0, 7615, 30459, 68523>>
\* cos(toRad(d)) * 10^4 for d = 0..3 degrees
CosDeg == <<10000, 9998, 9994, 9986>>

\* floor of the square root, by bisection
RECURSIVE SqrtBetween(_, _, _)
SqrtBetween(n, lo, hi) ==
    IF lo >= hi THEN lo
    ELSE LET mid == (lo + hi + 1) \div 2
         IN IF mid * mid <= n THEN SqrtBetween(n, mid, hi)
                              ELSE SqrtBetween(n, lo, mid - 1)

ISqrt(n) == SqrtBetween(n, 0, 46340)

\* getDistance with the bug of leaving out the factor 2 of
\* c = 2 * atan2(sqrt(a), sqrt(1-a)).
getDistance_HalfAngle(point1, point2) ==
    LET lat1 == point1.latitude
        lon1 == point1.longitude
        lat2 == point2.latitude
        lon2 == point2.longitude
        dLat == Abs(lat2 - lat1)
        dLon == Abs(lon2 - lon1)
        a == SinSqHalf[dLat + 1]
               + (((CosDeg[Abs(lat1) + 1] * CosDeg[Abs(lat2) + 1]) \div 10000)
                    * SinSqHalf[dLon + 1]) \div 10000
        s == ISqrt(a * 10000)
        c == s + (((s * s) \div 1000000) * s) \div 6000000
    IN (R * c) \div 1000

\* Metres between two markers.  a is scaled by 10^8, its root s by 10^6;
\* atan2(sqrt(a), sqrt(1-a)) = asin(sqrt(a)) = s + s^3/6 to this precision.
getDistance(point1, point2) ==
    LET lat1 == point1.latitude
        lon1 == point1.longitude
        lat2 == point2.latitude
        lon2 == point2.longitude
        dLat == Abs(lat2 - lat1)
        dLon == Abs(lon2 - lon1)
        a == SinSqHalf[dLat + 1]
               + (((CosDeg[Abs(lat1) + 1] * CosDeg[Abs(lat2) + 1]) \div 10000)
                    * SinSqHalf[dLon + 1]) \div 10000
        s == ISqrt(a * 10000)
        c == 2 * (s + (((s * s) \div 1000000) * s) \div 6000000)
    IN (R * c) \div 1000

-----------------------------------------------------------------------------
(* calculateOptimizedRoute *)

\* The scan of the loop body: index of the first marker of the pool at the
\* smallest distance from currentPoint (a later marker replaces the candidate
\* only when strictly nearer).
RECURSIVE Scan(_, _, _, _)
Scan(currentPoint, pool, i, best) ==
    IF i > Len(pool) THEN best
    ELSE IF getDistance(currentPoint, pool[i]) < getDistance(currentPoint, pool[best])
           THEN Scan(currentPoint, pool, i + 1, i)
           ELSE Scan(currentPoint, pool, i + 1, best)

nearestMarker(currentPoint, remainingMarkers) ==
    remainingMarkers[Scan(currentPoint, remainingMarkers, 2, 1)]

\* LoopBody with the bug of splicing the head of the pool, whichever marker
\* was appended to the route.
LoopBody_SplicesHead(route, remainingMarkers) ==
    LET currentPoint == route[Len(route)]
        nearest == nearestMarker(currentPoint, remainingMarkers)
    IN <<Append(route, nearest), Splice(remainingMarkers, 1)>>

\* One iteration of the while loop: <<route, remainingMarkers>> afterwards.
LoopBody(route, remainingMarkers) ==
    LET currentPoint == route[Len(route)]
        nearest == nearestMarker(currentPoint, remainingMarkers)
    IN <<Append(route, nearest),
         Splice(remainingMarkers, IndexOf(remainingMarkers, nearest))>>

RECURSIVE WhileLoop(_, _)
WhileLoop(route, remainingMarkers) ==
    IF Len(remainingMarkers) > 0
      THEN LET after == LoopBody(route, remainingMarkers)
           IN WhileLoop(after[1], after[2])
      ELSE route

\* Find with the bug of taking the first marker of the array as the start.
Find_FirstOfArray(ms, startId) ==
    IF ms = <<>> THEN <<>> ELSE <<Head(ms)>>

\* markers.find(m => m.id === startId): the first such marker, as an option
Find(ms, startId) ==
    LET hit == SelectSeq(ms, LAMBDA m : m.id = startId)
    IN IF hit = <<>> THEN <<>> ELSE <<Head(hit)>>

\* markers.filter(m => m.id !== startId)
RemainingOf(ms, startId) == SelectSeq(ms, LAMBDA m : m.id # startId)

\* calculateOptimizedRoute with the bug of returning the array as it came
\* when the start marker is not found.
calculateOptimizedRoute_InputOnMiss(ms, startId) ==
    LET startMarker == Find(ms, startId)
    IN IF startMarker = <<>> THEN <<ms>>
       ELSE <<WhileLoop(<<startMarker[1]>>, RemainingOf(ms, startId))>>

\* The returned value as an option: <<>> is null, <<route>> a route.
calculateOptimizedRoute(ms, startId) ==
    LET startMarker == Find(ms, startId)
    IN IF startMarker = <<>> THEN <<>>
       ELSE <<WhileLoop(<<startMarker[1]>>, RemainingOf(ms, startId))>>

-----------------------------------------------------------------------------
(* FileUpload: what the import hands to onDataLoaded *)

\* A parsed CSV row: [latitude, longitude, id]; id is Undefined when the file
\* has no `id` column.  Rows of one file have the same columns.
CsvLats == Lats \cup {91}
CsvRows == [latitude : CsvLats, longitude : Lons, id : IdValues \cup {Undefined}]

RECURSIVE SeqsUpTo(_, _)
SeqsUpTo(S, n) ==
    IF n = 0 THEN {<<>>}
    ELSE LET shorter == SeqsUpTo(S, n - 1)
         IN shorter \cup {Append(q, x) : q \in {t \in shorter : Len(t) = n - 1}, x \in S}

CsvFiles ==
    {rows \in SeqsUpTo(CsvRows, MaxRows) :
        \A i, j \in DOMAIN rows : (rows[i].id = Undefined) = (rows[j].id = Undefined)}

\* the row filter of the csv branch
CsvRowValid(row) ==
    /\ row.latitude >= 0 - 90 /\ row.latitude <= 90
    /\ row.longitude >= 0 - 180 /\ row.longitude <= 180

\* the markers of the csv branch: filter, then map; ...row is spread last and
\* overrides the keys written before it
CsvMarkers(rows) ==
    LET kept == SelectSeq(rows, CsvRowValid)
    IN [index \in 1..Len(kept) |->
          [id |-> IF kept[index].id = Undefined THEN IdTable[index] ELSE kept[index].id,
           latitude |-> kept[index].latitude,
           longitude |-> kept[index].longitude,
           name |-> index,
           icon |-> Undefined,
           ref |-> index]]

\* complete() reaches onDataLoaded(markers)
CsvAccepted(rows) ==
    /\ rows # <<>>
    /\ rows[1].latitude # 0
    /\ rows[1].longitude # 0
    /\ Len(CsvMarkers(rows)) # 0

\* A GeoJSON feature: [type, latitude, longitude, id]; coordinates are
\* [longitude, latitude]; id is properties.id, Undefined when absent (the
\* features drawn here carry none).
Features ==
    [type : {"Point"}, latitude : Lats, longitude : Lons, id : {Undefined}]
      \cup [type : {"LineString"}, latitude : {0}, longitude : {0}, id : {Undefined}]

GeoJsonFiles == SeqsUpTo(Features, MaxRows)

processGeoJSON(features) ==
    LET kept == SelectSeq(features, LAMBDA feature : feature.type = "Point")
    IN [index \in 1..Len(kept) |->
          [id |-> IF kept[index].id = Undefined THEN IdTable[index] ELSE kept[index].id,
           latitude |-> kept[index].latitude,
           longitude |-> kept[index].longitude,
           name |-> index,
           icon |-> Undefined,
           ref |-> index]]

\* Every array an import can hand to onDataLoaded.
CsvLoads == {CsvMarkers(rows) : rows \in {r \in CsvFiles : CsvAccepted(r)}}
GeoJsonLoads ==
    {processGeoJSON(features) :
        features \in {f \in GeoJsonFiles : Len(processGeoJSON(f)) # 0}}

-----------------------------------------------------------------------------
(* Object identity *)

Max(S) == IF S = {} THEN 0 ELSE CHOOSE x \in S : \A y \in S : y <= x

RouteSeq(opt) == IF opt = <<>> THEN <<>> ELSE opt[1]

\* The App state as one record.
St == [markers |-> markers, selectedMarkers |-> selectedMarkers, isDrawing |-> isDrawing,
       optimizedRoute |-> optimizedRoute, startMarkerId |-> startMarkerId]

LiveRefs(st) ==
    Refs(st.markers) \cup Refs(st.selectedMarkers) \cup Refs(RouteSeq(st.optimizedRoute))

\* n objects made by one handler: refs no live object has
WithNewRefs(s, base) == [i \in DOMAIN s |-> [s[i] EXCEPT !.ref = base + i]]

\* Renumbers the refs of the live objects 1, 2, ... in order of first
\* appearance in markers, selectedMarkers, optimizedRoute.
Renumber(st) ==
    LET all == st.markers \o st.selectedMarkers \o RouteSeq(st.optimizedRoute)
        First(r) == CHOOSE i \in DOMAIN all :
                        all[i].ref = r /\ \A j \in 1..(i-1) : all[j].ref # r
        Rank(r) == Cardinality({all[j].ref : j \in 1..First(r)})
        Re(s) == [i \in DOMAIN s |-> [s[i] EXCEPT !.ref = Rank(s[i].ref)]]
    IN [st EXCEPT !.markers = Re(st.markers),
                  !.selectedMarkers = Re(st.selectedMarkers),
                  !.optimizedRoute = IF st.optimizedRoute = <<>> THEN <<>>
                                     ELSE <<Re(st.optimizedRoute[1])>>]

-----------------------------------------------------------------------------
(* App: the handlers, each from the state st of the render it closes over to
   the state after its setState calls *)

handleDataLoaded(st, newMarkers) ==
    [st EXCEPT !.markers = WithNewRefs(newMarkers, Max(LiveRefs(st)))]

\* handleMarkersSelected with the bug of adding to the selection.
handleMarkersSelected_Adds(st, selected) ==
    [st EXCEPT !.selectedMarkers = st.selectedMarkers \o selected, !.isDrawing = FALSE]

handleMarkersSelected(st, selected) ==
    [st EXCEPT !.selectedMarkers = selected, !.isDrawing = FALSE]

\* handleToggleDrawing with the bug of keeping the route and the start point
\* when drawing mode is entered.
handleToggleDrawing_KeepsRoute(st) ==
    IF ~st.isDrawing
      THEN [st EXCEPT !.isDrawing = TRUE, !.selectedMarkers = <<>>]
      ELSE [st EXCEPT !.isDrawing = FALSE]

handleToggleDrawing(st) ==
    IF ~st.isDrawing
      THEN [st EXCEPT !.isDrawing = TRUE, !.selectedMarkers = <<>>,
                      !.optimizedRoute = <<>>, !.startMarkerId = Null]
      ELSE [st EXCEPT !.isDrawing = FALSE]

\* handleOptimizeRoute with the bug of keeping the route when the start point
\* is cleared.
handleOptimizeRoute_KeepsRoute(st, newStartMarkerId) ==
    IF Falsy(newStartMarkerId)
      THEN [st EXCEPT !.startMarkerId = newStartMarkerId]
      ELSE [st EXCEPT !.startMarkerId = newStartMarkerId,
                      !.optimizedRoute =
                          calculateOptimizedRoute(st.selectedMarkers, newStartMarkerId)]

handleOptimizeRoute(st, newStartMarkerId) ==
    IF Falsy(newStartMarkerId)
      THEN [st EXCEPT !.startMarkerId = newStartMarkerId, !.optimizedRoute = <<>>]
      ELSE [st EXCEPT !.startMarkerId = newStartMarkerId,
                      !.optimizedRoute =
                          calculateOptimizedRoute(st.selectedMarkers, newStartMarkerId)]

\* Map, click on the Marker of `marker`: startPoint is optimizedRoute?.[0],
\* undefined when the route is null; includes compares objects.
click(st, marker) ==
    IF st.optimizedRoute = <<>> /\ Includes(st.selectedMarkers, marker)
      THEN handleOptimizeRoute(st, marker.id)
      ELSE st

\* handleDelete with the bug of keeping the start-point designation.
handleDelete_KeepsStart(st) ==
    LET selectedIds == Ids(st.selectedMarkers)
    IN [st EXCEPT !.markers = SelectSeq(st.markers, LAMBDA m : m.id \notin selectedIds),
                  !.selectedMarkers = <<>>,
                  !.optimizedRoute = <<>>]

\* handleDelete with the bug of filtering by object, selectedMarkers.includes,
\* in place of filtering by id.
handleDelete_ByObject(st) ==
    [st EXCEPT !.markers = SelectSeq(st.markers, LAMBDA m : ~Includes(st.selectedMarkers, m)),
               !.selectedMarkers = <<>>,
               !.optimizedRoute = <<>>,
               !.startMarkerId = Null]

handleDelete(st) ==
    LET selectedIds == Ids(st.selectedMarkers)
    IN [st EXCEPT !.markers = SelectSeq(st.markers, LAMBDA m : m.id \notin selectedIds),
                  !.selectedMarkers = <<>>,
                  !.optimizedRoute = <<>>,
                  !.startMarkerId = Null]

\* markers.map(marker => marker.id === id ? {...marker, latitude, longitude} : marker)
MoveIn(s, id, lat, lng, base) ==
    [i \in DOMAIN s |->
        IF s[i].id = id
          THEN [s[i] EXCEPT !.latitude = lat, !.longitude = lng, !.ref = base + i]
          ELSE s[i]]

\* handleMarkerMove with the bug of leaving the selection as it was.
handleMarkerMove_CollectionOnly(st, id, lat, lng) ==
    [st EXCEPT !.markers = MoveIn(st.markers, id, lat, lng, Max(LiveRefs(st)))]

\* handleMarkerMove with the bug of recomputing the route from selectedMarkers,
\* the selection of the render, in place of updatedSelected.
handleMarkerMove_RouteOfRender(st, id, lat, lng) ==
    LET base == Max(LiveRefs(st))
        updatedMarkers == MoveIn(st.markers, id, lat, lng, base)
        updatedSelected ==
            MoveIn(st.selectedMarkers, id, lat, lng, base + Len(st.markers))
    IN IF id \in Ids(st.selectedMarkers)
         THEN IF ~Falsy(st.startMarkerId)
                THEN [st EXCEPT !.markers = updatedMarkers,
                                !.selectedMarkers = updatedSelected,
                                !.optimizedRoute =
                                    calculateOptimizedRoute(st.selectedMarkers, st.startMarkerId)]
                ELSE [st EXCEPT !.markers = updatedMarkers,
                                !.selectedMarkers = updatedSelected]
         ELSE [st EXCEPT !.markers = updatedMarkers]

handleMarkerMove(st, id, lat, lng) ==
    LET base == Max(LiveRefs(st))
        updatedMarkers == MoveIn(st.markers, id, lat, lng, base)
        updatedSelected ==
            MoveIn(st.selectedMarkers, id, lat, lng, base + Len(st.markers))
    IN IF id \in Ids(st.selectedMarkers)
         THEN IF ~Falsy(st.startMarkerId)
                THEN [st EXCEPT !.markers = updatedMarkers,
                                !.selectedMarkers = updatedSelected,
                                !.optimizedRoute =
                                    calculateOptimizedRoute(updatedSelected, st.startMarkerId)]
                ELSE [st EXCEPT !.markers = updatedMarkers,
                                !.selectedMarkers = updatedSelected]
         ELSE [st EXCEPT !.markers = updatedMarkers]

\* handleUpdateIcons with the bug of tagging every marker of the collection.
handleUpdateIcons_All(st, iconUrl) ==
    LET base == Max(LiveRefs(st))
    IN [st EXCEPT !.markers =
          [i \in DOMAIN st.markers |->
              [st.markers[i] EXCEPT !.icon = iconUrl, !.ref = base + i]]]

handleUpdateIcons(st, iconUrl) ==
    LET selectedIds == Ids(st.selectedMarkers)
        base == Max(LiveRefs(st))
    IN [st EXCEPT !.markers =
          [i \in DOMAIN st.markers |->
              IF st.markers[i].id \in selectedIds
                THEN [st.markers[i] EXCEPT !.icon = iconUrl, !.ref = base + i]
                ELSE st.markers[i]]]

-----------------------------------------------------------------------------
(* Map: the drawn shape and the CREATED handler *)

\* A drawn shape: the rectangle [south, north] x [west, east].
Shapes ==
    {sh \in [south : Lats, north : Lats, west : Lons, east : Lons] :
        sh.south <= sh.north /\ sh.west <= sh.east}

\* turf.booleanPointInPolygon(point, drawnShape): the boundary counts as inside
booleanPointInPolygon(marker, drawnShape) ==
    /\ drawnShape.south <= marker.latitude /\ marker.latitude <= drawnShape.north
    /\ drawnShape.west <= marker.longitude /\ marker.longitude <= drawnShape.east

\* DrawControl's CREATED handler: the markers it passes to onMarkersSelected
MarkersInShape(ms, drawnShape) ==
    SelectSeq(ms, LAMBDA marker : booleanPointInPolygon(marker, drawnShape))

-----------------------------------------------------------------------------
(* The UI events *)

Commit(st, op) ==
    LET new == Renumber(st)
    IN /\ events < MaxEvents
       /\ events' = events + 1
       /\ markers' = new.markers
       /\ selectedMarkers' = new.selectedMarkers
       /\ isDrawing' = new.isDrawing
       /\ optimizedRoute' = new.optimizedRoute
       /\ startMarkerId' = new.startMarkerId
       /\ lastOp' = op
       /\ UNCHANGED <<routeVars, importVars, drawVars>>

\* The record kept in lastOp: the event and the arguments it carried.
Op(name) ==
    [op |-> name, id |-> Null, lat |-> 0, lng |-> 0,
     shape |-> [south |-> 0, north |-> 0, west |-> 0, east |-> 0]]

\* FileUpload.handleFileUpload, csv and txt
UploadCsv ==
    \E newMarkers \in CsvLoads :
        /\ Commit(handleDataLoaded(St, newMarkers), Op("load"))
        /\ UNCHANGED selectingStart

\* FileUpload.handleFileUpload, json, geojson, kml, gpx and kmz
UploadGeoJson ==
    \E newMarkers \in GeoJsonLoads :
        /\ Commit(handleDataLoaded(St, newMarkers), Op("load"))
        /\ UNCHANGED selectingStart

\* Map: L.Draw.Event.CREATED
DrawCreated ==
    \E drawnShape \in Shapes :
        /\ Commit(handleMarkersSelected(St, MarkersInShape(markers, drawnShape)),
                  [Op("selectByRegion") EXCEPT !.shape = drawnShape])
        /\ UNCHANGED selectingStart

\* MapControls: the Select Area button
ToggleDrawing ==
    /\ Commit(handleToggleDrawing(St), Op("setDrawingMode"))
    /\ UNCHANGED selectingStart

\* Map: click on a marker
ClickMarker ==
    \E i \in DOMAIN markers :
        /\ optimizedRoute = <<>>
        /\ Includes(selectedMarkers, markers[i])
        /\ Commit(click(St, markers[i]),
                  [Op("startPoint") EXCEPT !.id = markers[i].id])
        /\ UNCHANGED selectingStart

\* MapControls.handleOptimizeRoute: the Optimize Route button
OptimizeButton ==
    /\ Len(selectedMarkers) >= 2
    /\ IF selectingStart
         THEN /\ selectingStart' = FALSE
              /\ Commit(handleOptimizeRoute(St, Null), Op("clearStart"))
         ELSE /\ selectingStart' = TRUE
              /\ Commit(St, Op("selectStart"))

\* MapControls.handleDelete: the Delete Selected button, confirmed
DeleteButton ==
    /\ Len(selectedMarkers) # 0
    /\ Commit(handleDelete(St), Op("deleteSelected"))
    /\ UNCHANGED selectingStart

\* Map: dragend of a marker
DragEnd ==
    \E i \in DOMAIN markers, lat \in Lats, lng \in Lons :
        /\ Commit(handleMarkerMove(St, markers[i].id, lat, lng),
                  [Op("move") EXCEPT !.id = markers[i].id, !.lat = lat, !.lng = lng])
        /\ UNCHANGED selectingStart

\* IconEditor.handleSubmit
IconSubmit ==
    \E iconUrl \in IconUrls :
        /\ Len(selectedMarkers) # 0
        /\ Commit(handleUpdateIcons(St, iconUrl),
                  [Op("tagIconSelected") EXCEPT !.id = iconUrl])
        /\ UNCHANGED selectingStart

RouteIdle ==
    /\ rInput = <<>>
    /\ rStartId = Null
    /\ rRoute = <<>>
    /\ rRemaining = <<>>
    /\ rResult = <<>>
    /\ rpc = "idle"

ImportIdle ==
    /\ iFormat = "none"
    /\ iRows = <<>>
    /\ iMarkers = <<>>
    /\ ipc = "idle"

\* The stepped CREATED event is not running.
DrawIdle ==
    /\ listeners = <<>>
    /\ firing = 0
    /\ drawn = Op("init").shape
    /\ queued = <<>>

Init ==
    /\ markers = <<>>
    /\ selectedMarkers = <<>>
    /\ isDrawing = FALSE
    /\ optimizedRoute = <<>>
    /\ startMarkerId = Null
    /\ selectingStart = FALSE
    /\ lastOp = Op("init")
    /\ events = 0
    /\ RouteIdle
    /\ ImportIdle
    /\ DrawIdle

Next ==
    \/ UploadCsv
    \/ UploadGeoJson
    \/ DrawCreated
    \/ ToggleDrawing
    \/ ClickMarker
    \/ OptimizeButton
    \/ DeleteButton
    \/ DragEnd
    \/ IconSubmit

Spec == Init /\ [][Next]_vars

-----------------------------------------------------------------------------
(* calculateOptimizedRoute on its own, one step per statement group *)

\* Ids and positions of the markers handed to the optimizer: an `id` column
\* can put any ids, in any order and repeated, into a selection.
RouteIds == {"marker-0", "marker-1", "x"}
RoutePoints == {<<0, 0>>, <<0, 1>>, <<0, 3>>, <<1, 0>>}
RouteMarkers ==
    {[id |-> id, latitude |-> pt[1], longitude |-> pt[2], name |-> 1,
      icon |-> Undefined, ref |-> 0] : id \in RouteIds, pt \in RoutePoints}

\* the elements of an array are distinct objects
RouteInputs ==
    {[i \in DOMAIN q |-> [q[i] EXCEPT !.ref = i]] :
        q \in SeqsUpTo(RouteMarkers, MaxLen) \ {<<>>}}

RouteInit ==
    /\ markers = <<>>
    /\ selectedMarkers = <<>>
    /\ isDrawing = FALSE
    /\ optimizedRoute = <<>>
    /\ startMarkerId = Null
    /\ selectingStart = FALSE
    /\ lastOp = Op("init")
    /\ events = 0
    /\ rInput \in RouteInputs
    /\ rStartId \in RouteIds
    /\ rRoute = <<>>
    /\ rRemaining = <<>>
    /\ rResult = <<>>
    /\ rpc = "find"
    /\ ImportIdle
    /\ DrawIdle

\* lines 35-36: the start marker is not found, return null
ReturnNull ==
    /\ rpc = "find"
    /\ Find(rInput, rStartId) = <<>>
    /\ rResult' = <<>>
    /\ rpc' = "returned"
    /\ UNCHANGED <<rInput, rStartId, rRoute, rRemaining>>
    /\ UNCHANGED <<appVars, importVars, drawVars>>

\* lines 35-39: the start marker is found
StartRoute ==
    /\ rpc = "find"
    /\ Find(rInput, rStartId) # <<>>
    /\ rRemaining' = RemainingOf(rInput, rStartId)
    /\ rRoute' = <<Find(rInput, rStartId)[1]>>
    /\ rpc' = "while"
    /\ UNCHANGED <<rInput, rStartId, rResult>>
    /\ UNCHANGED <<appVars, importVars, drawVars>>

\* lines 41-56: one iteration of the while loop
Iterate ==
    /\ rpc = "while"
    /\ Len(rRemaining) > 0
    /\ rRoute' = LoopBody(rRoute, rRemaining)[1]
    /\ rRemaining' = LoopBody(rRoute, rRemaining)[2]
    /\ UNCHANGED <<rInput, rStartId, rResult, rpc>>
    /\ UNCHANGED <<appVars, importVars, drawVars>>

\* line 58: return route
ReturnRoute ==
    /\ rpc = "while"
    /\ Len(rRemaining) = 0
    /\ rResult' = <<rRoute>>
    /\ rpc' = "returned"
    /\ UNCHANGED <<rInput, rStartId, rRoute, rRemaining>>
    /\ UNCHANGED <<appVars, importVars, drawVars>>

RouteNext ==
    \/ ReturnNull
    \/ StartRoute
    \/ Iterate
    \/ ReturnRoute

RouteSpec == RouteInit /\ [][RouteNext]_vars

\* The operator the store uses returns what the stepped function returns.
StepsAgree ==
    rpc = "returned" => rResult = calculateOptimizedRoute(rInput, rStartId)

-----------------------------------------------------------------------------
(* FileUpload.handleFileUpload on its own: one file, parsed and handed over
   or refused *)

\* Rows and features as files can carry them: coordinates in and out of
\* range, an `id` column or property with repeated values.
ImportCsvRows ==
    [latitude : {0 - 91, 0, 45, 91}, longitude : {0, 10, 181}, id : {Undefined, "x", "y"}]
ImportCsvFiles ==
    {rows \in SeqsUpTo(ImportCsvRows, MaxRows) :
        \A i, j \in DOMAIN rows : (rows[i].id = Undefined) = (rows[j].id = Undefined)}
ImportFeatures ==
    [type : {"Point"}, latitude : {0, 91}, longitude : {0, 181}, id : {Undefined, "x"}]
      \cup [type : {"LineString"}, latitude : {0}, longitude : {0}, id : {Undefined}]
ImportGeoJsonFiles == SeqsUpTo(ImportFeatures, MaxRows)

ImportInit ==
    /\ markers = <<>>
    /\ selectedMarkers = <<>>
    /\ isDrawing = FALSE
    /\ optimizedRoute = <<>>
    /\ startMarkerId = Null
    /\ selectingStart = FALSE
    /\ lastOp = Op("init")
    /\ events = 0
    /\ RouteIdle
    /\ \/ iFormat = "csv" /\ iRows \in ImportCsvFiles
       \/ iFormat = "geojson" /\ iRows \in ImportGeoJsonFiles
    /\ iMarkers = <<>>
    /\ ipc = "parse"
    /\ DrawIdle

\* csv, txt: complete() reaches onDataLoaded(markers)
CsvLoad ==
    /\ ipc = "parse" /\ iFormat = "csv"
    /\ CsvAccepted(iRows)
    /\ iMarkers' = CsvMarkers(iRows)
    /\ ipc' = "loaded"
    /\ UNCHANGED <<iFormat, iRows, appVars, routeVars, drawVars>>

\* csv, txt: complete() ends in setError
CsvRefuse ==
    /\ ipc = "parse" /\ iFormat = "csv"
    /\ ~CsvAccepted(iRows)
    /\ ipc' = "refused"
    /\ UNCHANGED <<iFormat, iRows, iMarkers, appVars, routeVars, drawVars>>

\* json, geojson, kml, gpx, kmz: onload reaches onDataLoaded(markers)
GeoJsonLoad ==
    /\ ipc = "parse" /\ iFormat = "geojson"
    /\ Len(processGeoJSON(iRows)) # 0
    /\ iMarkers' = processGeoJSON(iRows)
    /\ ipc' = "loaded"
    /\ UNCHANGED <<iFormat, iRows, appVars, routeVars, drawVars>>

\* json, geojson, kml, gpx, kmz: onload ends in setError
GeoJsonRefuse ==
    /\ ipc = "parse" /\ iFormat = "geojson"
    /\ Len(processGeoJSON(iRows)) = 0
    /\ ipc' = "refused"
    /\ UNCHANGED <<iFormat, iRows, iMarkers, appVars, routeVars, drawVars>>

ImportNext ==
    \/ CsvLoad
    \/ CsvRefuse
    \/ GeoJsonLoad
    \/ GeoJsonRefuse

ImportSpec == ImportInit /\ [][ImportNext]_vars

-----------------------------------------------------------------------------
(* DrawControl's CREATED listeners, one per render, and the event that calls
   them all *)

\* DrawControl's effect with the bug of an empty dependency list: the listener
\* of the mount is the only one.
DrawControlEffect_OnMountOnly(ls, ms) == IF ls = <<>> THEN <<ms>> ELSE ls

\* DrawControl's effect after a render with the collection ms: map.on adds a
\* listener that closes over ms; the cleanup of the effect before it removes
\* the layer and the control, and no listener (there is no map.off).
DrawControlEffect(ls, ms) == Append(ls, ms)

\* The setState calls of a handler, the render they cause and the effect of
\* DrawControl after it (onMarkersSelected is a new function in every render
\* of App, so the effect runs after every render).
Render(st, op) ==
    LET new == Renumber(st)
    IN /\ markers' = new.markers
       /\ selectedMarkers' = new.selectedMarkers
       /\ isDrawing' = new.isDrawing
       /\ optimizedRoute' = new.optimizedRoute
       /\ startMarkerId' = new.startMarkerId
       /\ lastOp' = op
       /\ events' = events + 1
       /\ listeners' = DrawControlEffect(listeners, new.markers)
       /\ UNCHANGED <<selectingStart, routeVars, importVars>>

\* The map is mounted over the empty collection: the first listener.
DrawInit ==
    /\ markers = <<>>
    /\ selectedMarkers = <<>>
    /\ isDrawing = FALSE
    /\ optimizedRoute = <<>>
    /\ startMarkerId = Null
    /\ selectingStart = FALSE
    /\ lastOp = Op("init")
    /\ events = 0
    /\ RouteIdle
    /\ ImportIdle
    /\ listeners = DrawControlEffect(<<>>, <<>>)
    /\ firing = 0
    /\ drawn = Op("init").shape
    /\ queued = <<>>

\* a file is loaded (json, geojson, kml, gpx, kmz)
RenderLoad ==
    \E newMarkers \in GeoJsonLoads :
        /\ firing = 0 /\ Len(listeners) < MaxListeners
        /\ Render(handleDataLoaded(St, newMarkers), Op("load"))
        /\ UNCHANGED <<firing, drawn, queued>>

\* a marker is dragged
RenderMove ==
    \E i \in DOMAIN markers, lat \in Lats, lng \in Lons :
        /\ firing = 0 /\ Len(listeners) < MaxListeners
        /\ Render(handleMarkerMove(St, markers[i].id, lat, lng),
                  [Op("move") EXCEPT !.id = markers[i].id, !.lat = lat, !.lng = lng])
        /\ UNCHANGED <<firing, drawn, queued>>

\* the selection is deleted
RenderDelete ==
    /\ firing = 0 /\ Len(listeners) < MaxListeners
    /\ Len(selectedMarkers) # 0
    /\ Render(handleDelete(St), Op("deleteSelected"))
    /\ UNCHANGED <<firing, drawn, queued>>

\* the selection is tagged with an icon
RenderTag ==
    \E iconUrl \in IconUrls :
        /\ firing = 0 /\ Len(listeners) < MaxListeners
        /\ Len(selectedMarkers) # 0
        /\ Render(handleUpdateIcons(St, iconUrl),
                  [Op("tagIconSelected") EXCEPT !.id = iconUrl])
        /\ UNCHANGED <<firing, drawn, queued>>

\* The user completes a shape: the map fires L.Draw.Event.CREATED.
FireCreated ==
    \E drawnShape \in Shapes :
        /\ firing = 0 /\ Len(listeners) <= MaxListeners
        /\ drawn' = drawnShape
        /\ firing' = 1
        /\ UNCHANGED <<listeners, queued, appVars, routeVars, importVars>>

\* The map calls the next listener, in the order of registration: it filters
\* the markers it closes over and calls onMarkersSelected, whose setState
\* calls are queued (setIsDrawing(false) is the same in every call).
CallListener ==
    /\ firing \in 1..Len(listeners)
    /\ queued' = <<MarkersInShape(listeners[firing], drawn)>>
    /\ firing' = firing + 1
    /\ UNCHANGED <<listeners, drawn, appVars, routeVars, importVars>>

\* Every listener has been called: the queued state is committed, the last
\* value set winning, and App renders.
CommitSelection ==
    /\ firing = Len(listeners) + 1
    /\ Render(handleMarkersSelected(St, queued[1]),
              [Op("selectByRegion") EXCEPT !.shape = drawn])
    /\ firing' = 0
    /\ queued' = <<>>
    /\ UNCHANGED drawn

DrawNext ==
    \/ RenderLoad
    \/ RenderMove
    \/ RenderDelete
    \/ RenderTag
    \/ FireCreated
    \/ CallListener
    \/ CommitSelection

DrawSpec == DrawInit /\ [][DrawNext]_vars

-----------------------------------------------------------------------------
(* The claims about the marker store *)

\* Same id, position and icon: the attributes a marker shows, whatever object
\* holds them.
SameAttributes(m, n) ==
    /\ m.id = n.id
    /\ m.latitude = n.latitude
    /\ m.longitude = n.longitude
    /\ m.icon = n.icon

\* s and t hold markers with the same attributes, in the same order
SameMarkers(s, t) ==
    /\ Len(s) = Len(t)
    /\ \A i \in DOMAIN s : SameAttributes(s[i], t[i]) /\ s[i].name = t[i].name

\* C1: in every reachable state every marker of the selection exists, by
\* identical id, in the full collection.
C1_SelectionWithinCollection ==
    \A i \in DOMAIN selectedMarkers :
        \E j \in DOMAIN markers : markers[j].id = selectedMarkers[i].id

\* C2: after load(newMarkers), whatever the prior state, the collection equals
\* newMarkers, the selection is empty, the route is absent and no start point
\* is designated.
C2_LoadClears ==
    [][lastOp'.op = "load" =>
          /\ \E newMarkers \in CsvLoads \cup GeoJsonLoads : SameMarkers(markers', newMarkers)
          /\ selectedMarkers' = <<>>
          /\ optimizedRoute' = <<>>
          /\ startMarkerId' = Null]_vars

\* C3: whenever a route is present it orders the current selection from the
\* designated start: it holds exactly the ids of the current selection and
\* its first element is the designated start marker.
C3_RouteOfCurrentSelection ==
    optimizedRoute # <<>> =>
        /\ Ids(optimizedRoute[1]) = Ids(selectedMarkers)
        /\ optimizedRoute[1][1].id = startMarkerId

\* C4: after deleteSelected the collection holds no marker whose id was in the
\* selection at the time of the call, the selection is empty, the route is
\* absent and the start-point designation is cleared.
C4_DeleteSelected ==
    [][lastOp'.op = "deleteSelected" =>
          /\ \A j \in DOMAIN markers' :
                \A i \in DOMAIN selectedMarkers : markers'[j].id # selectedMarkers[i].id
          /\ selectedMarkers' = <<>>
          /\ optimizedRoute' = <<>>
          /\ startMarkerId' = Null]_vars

\* C4 witness: a delete that left part of the collection in place.
C4_Witness ==
    /\ lastOp.op = "deleteSelected"
    /\ markers # <<>>
    /\ selectedMarkers = <<>>

\* C8: when the designated start id does not occur in the array handed to the
\* optimizer (a move of a selected marker after the selection changed, or a
\* start-point designation), no route comes back and the store has no route.
C8_AbsentStartNoRoute ==
    [][( /\ lastOp'.op \in {"move", "startPoint"}
         /\ lastOp'.op = "move" =>
               lastOp'.id \in Ids(selectedMarkers) /\ ~Falsy(startMarkerId)
         /\ (IF lastOp'.op = "move" THEN startMarkerId ELSE lastOp'.id)
               \notin Ids(selectedMarkers) )
        => optimizedRoute' = <<>>]_vars

\* C8 witness: a selected marker was moved while the designated start id was
\* no longer in the selection, and the store has no route.
C8_Witness ==
    /\ lastOp.op = "move"
    /\ lastOp.id \in Ids(selectedMarkers)
    /\ ~Falsy(startMarkerId)
    /\ startMarkerId \notin Ids(selectedMarkers)
    /\ optimizedRoute = <<>>

\* C9: selectByRegion(polygon) sets the selection to exactly the markers of
\* the current collection that satisfy the containment test, each once,
\* replacing any prior selection (none inside: the empty selection), and
\* leaves drawing mode off.
C9_SelectByRegion ==
    [][lastOp'.op = "selectByRegion" =>
          /\ isDrawing' = FALSE
          /\ markers' = markers
          /\ \A j \in DOMAIN markers :
                booleanPointInPolygon(markers[j], lastOp'.shape)
                    <=> \E i \in DOMAIN selectedMarkers' : selectedMarkers'[i] = markers'[j]
          /\ \A i \in DOMAIN selectedMarkers' :
                \E j \in DOMAIN markers : selectedMarkers'[i] = markers'[j]
          /\ \A i, k \in DOMAIN selectedMarkers' :
                i # k => selectedMarkers'[i].ref # selectedMarkers'[k].ref]_vars

\* C9 witness: a region that holds some markers of the collection and not
\* others has been drawn.
C9_Witness ==
    /\ lastOp.op = "selectByRegion"
    /\ selectedMarkers # <<>>
    /\ Len(selectedMarkers) < Len(markers)
    /\ ~isDrawing

\* C10: the selection is a view of the collection: after tagIconSelected and
\* after move, each marker of the selection has the latitude, longitude and
\* icon of the canonical marker with the same id.
C10_SelectionIsView ==
    lastOp.op \in {"tagIconSelected", "move"} =>
        \A i \in DOMAIN selectedMarkers : \A j \in DOMAIN markers :
            markers[j].id = selectedMarkers[i].id
                => SameAttributes(selectedMarkers[i], markers[j])

\* C11: move(id, newLat, newLon) sets the position of every marker with that
\* id to (newLat, newLon) in the collection and, when a marker with that id is
\* in the selection, in the selection too; no marker is added or removed.
C11_MoveSetsPosition ==
    [][lastOp'.op = "move" =>
          /\ Len(markers') = Len(markers)
          /\ \A j \in DOMAIN markers :
                markers[j].id = lastOp'.id =>
                    /\ markers'[j].id = lastOp'.id
                    /\ markers'[j].latitude = lastOp'.lat
                    /\ markers'[j].longitude = lastOp'.lng
          /\ Len(selectedMarkers') = Len(selectedMarkers)
          /\ \A i \in DOMAIN selectedMarkers :
                selectedMarkers[i].id = lastOp'.id =>
                    /\ selectedMarkers'[i].id = lastOp'.id
                    /\ selectedMarkers'[i].latitude = lastOp'.lat
                    /\ selectedMarkers'[i].longitude = lastOp'.lng]_vars

\* C11 witness: a move of a marker that is in the collection and in the
\* selection, while another marker of both stays where it was.
C11_Witness ==
    /\ lastOp.op = "move"
    /\ lastOp.lng = 1
    /\ \E j \in DOMAIN markers : markers[j].id = lastOp.id /\ markers[j].longitude = 1
    /\ \E i \in DOMAIN selectedMarkers :
          selectedMarkers[i].id = lastOp.id /\ selectedMarkers[i].longitude = 1
    /\ \E i \in DOMAIN selectedMarkers :
          selectedMarkers[i].id # lastOp.id /\ selectedMarkers[i].longitude = 0

\* C12: whenever a route is present, every marker of the route has the
\* position the collection holds for the marker with the same id.
C12_RouteHasCurrentPositions ==
    optimizedRoute # <<>> =>
        \A k \in DOMAIN optimizedRoute[1] : \A j \in DOMAIN markers :
            markers[j].id = optimizedRoute[1][k].id =>
                /\ markers[j].latitude = optimizedRoute[1][k].latitude
                /\ markers[j].longitude = optimizedRoute[1][k].longitude

\* C12, second half: a move of a marker of the selection, while a start point
\* is designated, keeps the start id and stores the route computed from that
\* start id over the selection with the updated positions.
C12_MoveRecomputes ==
    [][/\ lastOp'.op = "move"
       /\ lastOp'.id \in Ids(selectedMarkers)
       /\ ~Falsy(startMarkerId)
       => /\ startMarkerId' = startMarkerId
          /\ optimizedRoute' = calculateOptimizedRoute(selectedMarkers', startMarkerId)
          /\ \A i \in DOMAIN selectedMarkers' :
                selectedMarkers'[i].id = lastOp'.id =>
                    selectedMarkers'[i].longitude = lastOp'.lng]_vars

\* C13: move is idempotent: in the state a move(id, lat, lon) has produced, the
\* same move again leaves collection, selection, route, start id and drawing
\* flag as they are.
C13_MoveIdempotent ==
    lastOp.op = "move" =>
        Renumber(handleMarkerMove(St, lastOp.id, lastOp.lat, lastOp.lng)) = St

\* C13 witness: a move of a selected marker that recomputed a route of two
\* markers or more.
C13_Witness ==
    /\ lastOp.op = "move"
    /\ optimizedRoute # <<>>
    /\ Len(optimizedRoute[1]) >= 2
    /\ \E k \in DOMAIN optimizedRoute[1] :
          /\ optimizedRoute[1][k].id = lastOp.id
          /\ optimizedRoute[1][k].longitude = lastOp.lng
    /\ lastOp.id \in Ids(selectedMarkers)

\* C14: tagIconSelected(iconRef) sets icon to iconRef on every marker of the
\* collection whose id is in the selection and leaves every other marker, the
\* length and the order of the collection unchanged.
C14_TagIconSelected ==
    [][lastOp'.op = "tagIconSelected" =>
          /\ Len(markers') = Len(markers)
          /\ \A j \in DOMAIN markers :
                IF markers[j].id \in Ids(selectedMarkers)
                  THEN /\ markers'[j].icon = lastOp'.id
                       /\ SameAttributes([markers'[j] EXCEPT !.icon = markers[j].icon],
                                         markers[j])
                       /\ markers'[j].name = markers[j].name
                  ELSE /\ SameAttributes(markers'[j], markers[j])
                       /\ markers'[j].name = markers[j].name]_vars

\* C14 witness: a tagging that set the icon of a selected marker and left an
\* unselected marker without one.
C14_Witness ==
    /\ lastOp.op = "tagIconSelected"
    /\ \E j \in DOMAIN markers :
          markers[j].id \in Ids(selectedMarkers) /\ markers[j].icon = lastOp.id
    /\ \E j \in DOMAIN markers :
          markers[j].id \notin Ids(selectedMarkers) /\ markers[j].icon = Undefined

\* C15: the toggle fired while drawing mode is off turns the drawing flag on
\* and clears the selection, the route and the start-point designation.
C15_EnterDrawingClears ==
    [][lastOp'.op = "setDrawingMode" /\ ~isDrawing =>
          /\ isDrawing'
          /\ selectedMarkers' = <<>>
          /\ optimizedRoute' = <<>>
          /\ startMarkerId' = Null]_vars

\* C15 witness: drawing mode entered over a collection that is loaded.
C15_Witness ==
    /\ lastOp.op = "setDrawingMode"
    /\ isDrawing
    /\ markers # <<>>
    /\ selectedMarkers = <<>>

\* C18: routing is never run, and no route is stored, while the selection
\* holds fewer than 2 markers.
C18_RoutingNeedsTwo ==
    (lastOp.op = "startPoint" \/ optimizedRoute # <<>>) => Len(selectedMarkers) >= 2

\* C21: in every reachable state, a click on a marker of the collection whose
\* id is in the selection, while no route is present, designates it as the
\* start point and produces a route beginning with it.
C21_ClickDesignates ==
    \A i \in DOMAIN markers :
        (optimizedRoute = <<>> /\ markers[i].id \in Ids(selectedMarkers)) =>
            LET after == click(St, markers[i])
            IN /\ after.startMarkerId = markers[i].id
               /\ after.optimizedRoute # <<>>
               /\ after.optimizedRoute[1][1].id = markers[i].id

\* the ids a caller can hand to move
MoveIds == IdValues \cup {IdTable[i] : i \in 1..MaxRows}

C25_ClearStart ==
    /\ [][lastOp'.op = "clearStart" =>
              /\ optimizedRoute' = <<>>
              /\ startMarkerId' = Null
              /\ markers' = markers
              /\ selectedMarkers' = selectedMarkers
              /\ isDrawing' = isDrawing]_vars
    /\ [](optimizedRoute # <<>> =>
              /\ ~Falsy(startMarkerId)
              /\ optimizedRoute[1] # <<>>
              /\ optimizedRoute[1][1].id = startMarkerId)

\* C25 witness: the start designation cleared by the second press of the
\* button, as the fifth event, over a selection of two markers of the
\* collection.
C25_Witness ==
    /\ lastOp.op = "clearStart"
    /\ events = 5
    /\ Len(selectedMarkers) >= 2
    /\ optimizedRoute = <<>>
    /\ startMarkerId = Null
    /\ \E i \in DOMAIN markers : Includes(selectedMarkers, markers[i])

-----------------------------------------------------------------------------
(* The claims about the CREATED listeners, under DrawSpec *)

\* C22: when a draw-complete event has fired, the selection committed is the
\* markers of the current collection inside the shape, and nothing else of
\* the store changes but the drawing flag, although the listeners of earlier
\* renders, over older collections, are called too.
C22_SelectionFromCurrentCollection ==
    [][firing # 0 /\ firing' = 0 =>
          /\ firing = Len(listeners) + 1
          /\ selectedMarkers' = MarkersInShape(markers, drawn)
          /\ markers' = markers
          /\ isDrawing' = FALSE]_vars

\* C22 witness: a committed selection, not empty, after a draw that called a
\* listener of an earlier render, over a loaded collection, whose markers
\* inside the shape are not the ones committed.
C22_Witness ==
    /\ firing = 0
    /\ lastOp.op = "selectByRegion"
    /\ selectedMarkers # <<>>
    /\ selectedMarkers = MarkersInShape(markers, drawn)
    /\ \E k \in 2..(Len(listeners) - 2) :
          /\ listeners[k] # <<>>
          /\ ~SameMarkers(MarkersInShape(listeners[k], drawn), selectedMarkers)

-----------------------------------------------------------------------------
(* The claims about the import, under ImportSpec *)

\* C16: after any import no two markers of the collection have the same id,
\* whatever attributes the rows or features carry.
C16_IdsUnique ==
    ipc = "loaded" =>
        \A i, j \in DOMAIN iMarkers : iMarkers[i].id = iMarkers[j].id => i = j

\* C17: every marker the import hands to the store has latitude in [-90, 90]
\* and longitude in [-180, 180], for every source format.
C17_CoordinatesInRange ==
    ipc = "loaded" =>
        \A i \in DOMAIN iMarkers :
            /\ iMarkers[i].latitude >= 0 - 90 /\ iMarkers[i].latitude <= 90
            /\ iMarkers[i].longitude >= 0 - 180 /\ iMarkers[i].longitude <= 180

-----------------------------------------------------------------------------
(* The claims about the route optimizer, under RouteSpec *)

\* C5: for every non-empty input and every start id that occurs in it the
\* output is a permutation of the input: every marker of the input exactly
\* once, the output as long as the input.
C5_Permutation ==
    (rpc = "returned" /\ rStartId \in Ids(rInput)) =>
        /\ rResult # <<>>
        /\ Len(rResult[1]) = Len(rInput)
        /\ \A i \in DOMAIN rInput :
              Cardinality({k \in DOMAIN rResult[1] : rResult[1][k] = rInput[i]}) = 1

\* C6: for every input with a valid start id the first element of the output
\* is the marker with the designated start id.
C6_StartsAtStart ==
    (rpc = "returned" /\ rStartId \in Ids(rInput)) =>
        /\ rResult # <<>>
        /\ rResult[1][1].id = rStartId
        /\ \E i \in DOMAIN rInput : rResult[1][1] = rInput[i]

\* C6 witness: a route of several markers whose start is not the first marker
\* of the input.
C6_Witness ==
    /\ rpc = "returned"
    /\ rResult # <<>>
    /\ Len(rResult[1]) >= 2
    /\ rInput[1].id # rStartId
    /\ rResult[1][1].id = rStartId

\* The input positions not yet placed when position k of the route is chosen.
Unplaced(route, k) ==
    {i \in DOMAIN rInput : \A j \in 1..(k-1) : route[j].ref # rInput[i].ref}

\* Position k of the route is a marker not yet placed, none of the markers not
\* yet placed is nearer to position k-1, and those as near come later in the
\* input.
GreedyAt(route, k) ==
    \E i0 \in Unplaced(route, k) :
        /\ rInput[i0] = route[k]
        /\ \A i \in Unplaced(route, k) :
              /\ getDistance(route[k-1], route[k]) <= getDistance(route[k-1], rInput[i])
              /\ getDistance(route[k-1], route[k]) = getDistance(route[k-1], rInput[i])
                    => i0 <= i

\* A = (0,0), B = (0,1), C = (0,3), in any order of the input, distinct ids
Collinear ==
    /\ Len(rInput) = 3
    /\ Cardinality(Ids(rInput)) = 3
    /\ \A i \in DOMAIN rInput : rInput[i].latitude = 0
    /\ {rInput[i].longitude : i \in DOMAIN rInput} = {0, 1, 3}

\* C7: the optimizer is greedy nearest-neighbour: every position k >= 1 of the
\* output is the marker nearest to position k-1 among the markers not yet
\* placed, the first of them in input order on a tie; collinear A, B, C with
\* start A give [A, B, C].
C7_GreedyNearest ==
    (rpc = "returned" /\ rResult # <<>>) =>
        /\ \A k \in 2..Len(rResult[1]) : GreedyAt(rResult[1], k)
        /\ (Collinear /\ rResult[1][1].longitude = 0) =>
              <<rResult[1][1].longitude, rResult[1][2].longitude,
                rResult[1][3].longitude>> = <<0, 1, 3>>

\* C7 where no two markers of the input share an id.
C7_GreedyWhenIdsDistinct ==
    Cardinality(Ids(rInput)) = Len(rInput) => C7_GreedyNearest

\* C19: the optimizer terminates on every input: each iteration of the loop
\* moves exactly one marker from the remaining pool to the end of the route
\* (so the pool, shorter than the input, shrinks by one), the loop is left
\* only when the pool is empty, with an empty pool the return can be taken, and
\* with a pool that is not empty the loop body has a marker of the pool to
\* move.
C19_Terminates ==
    /\ [][rpc = "while" /\ rpc' = "while" =>
              \E p \in DOMAIN rRemaining :
                  /\ rRoute' = Append(rRoute, rRemaining[p])
                  /\ rRemaining' = Splice(rRemaining, p)
                  /\ Len(rRemaining') = Len(rRemaining) - 1]_vars
    /\ [][rpc = "while" /\ rpc' = "returned" =>
              rRemaining = <<>> /\ rResult' = <<rRoute>>]_vars
    /\ [](rpc = "while" => Len(rRemaining) < Len(rInput))
    /\ []((rpc = "while" /\ rRemaining = <<>>) => ENABLED ReturnRoute)
    /\ []((rpc = "while" /\ rRemaining # <<>>) =>
              \E p \in DOMAIN rRemaining :
                  LoopBody(rRoute, rRemaining)
                      = <<Append(rRoute, rRemaining[p]), Splice(rRemaining, p)>>)

\* C19 witness: a return after two iterations of the loop.
C19_Witness ==
    /\ rpc = "returned"
    /\ rResult # <<>>
    /\ Len(rResult[1]) = 3
    /\ rRemaining = <<>>

\* the two markers (0,0) and (0,1), distinct ids, the start id at (0,0)
TwoPoint ==
    /\ Len(rInput) = 2
    /\ rInput[1].id # rInput[2].id
    /\ {<<rInput[i].latitude, rInput[i].longitude>> : i \in DOMAIN rInput}
          = {<<0, 0>>, <<0, 1>>}
    /\ \E i \in DOMAIN rInput :
          rInput[i].id = rStartId /\ rInput[i].longitude = 0

\* C20: for the 2-point input (0,0), (0,1) with start (0,0) the route is
\* [(0,0), (0,1)], and the haversine distance between the two, with Earth
\* radius 6371 km, is 111.19 km to the nearest 10 m.
C20_TwoPoints ==
    (rpc = "returned" /\ TwoPoint) =>
        /\ rResult # <<>>
        /\ Len(rResult[1]) = 2
        /\ <<rResult[1][1].latitude, rResult[1][1].longitude>> = <<0, 0>>
        /\ <<rResult[1][2].latitude, rResult[1][2].longitude>> = <<0, 1>>
        /\ R = 6371
        /\ getDistance(rResult[1][1], rResult[1][2]) >= 111185
        /\ getDistance(rResult[1][1], rResult[1][2]) < 111195

\* C20 witness: the route of the 2-point input given as (0,1), (0,0).
C20_Witness ==
    /\ rpc = "returned"
    /\ TwoPoint
    /\ rInput[1].longitude = 1
    /\ rResult # <<>>

====
